---------------------------- MODULE Spec2Model ----------------------------
(***************************************************************************)
(* gcfl-sim fast kernels: trimmed_mean and sorted_weighted_mean            *)
(* (src/accel/cpp/fast_kernels.cpp) behind the pybind11 exports            *)
(* trimmed_mean and sorted_weighted (src/accel/cpp/pybind_module.cpp).     *)
(*                                                                         *)
(* A C++ double is modelled as an IEEE-754 binary64 value: a class         *)
(* ("fin", "nan", "pinf", "ninf"), a sign and, for a finite value, the set *)
(* of the positions of the 1 bits of its magnitude (bit i weighs 2^i, i    *)
(* may be negative).  Every arithmetic operation computes the exact result *)
(* on bit sets and rounds it to Precision significant bits, ties to even,  *)
(* as the hardware does.  The exponent range is not bounded (the inputs of *)
(* the model stay far from overflow and underflow) and the two zeros are   *)
(* not told apart.                                                         *)
(***************************************************************************)
EXTENDS Integers, Sequences, FiniteSets, TLC

\* significand width of a double (DBL_MANT_DIG)
Precision == 53

\* the longest values array and the longest weights array a caller passes
MaxLen == 3
MaxWeights == 2

-----------------------------------------------------------------------------
(* Magnitudes: finite sets of bit positions.                               *)

\* the largest element of S (the candidates are tried from the largest down)
MaxBit(S) == 0 - (CHOOSE x \in { 0 - i : i \in S } : \A y \in S : y <= 0 - x)

Shift(S, p) == { i + p : i \in S }

\* A + 2^b: the carry runs up to the first 0 bit at or above b
AddBit(A, b) ==
    LET p == CHOOSE i \in (A \cup {b - 1}) :
                 i + 1 >= b /\ (i + 1) \notin A /\ \A j \in b..i : j \in A
    IN  { i \in A : i < b \/ i > p } \cup {p + 1}

\* A - 2^b for A >= 2^b: the borrow runs up to the first 1 bit at or above b
SubBit(A, b) ==
    LET p == CHOOSE i \in A : i >= b /\ \A j \in A : j < b \/ j >= i
    IN  (A \ {p}) \cup (b..(p - 1))

\* A + B: the sum without carries, plus the carries
RECURSIVE AddBits(_, _)
AddBits(A, B) ==
    IF B = {} THEN A
    ELSE IF Cardinality(B) = 1 THEN AddBit(A, MaxBit(B))
    ELSE AddBits((A \cup B) \ (A \cap B), Shift(A \cap B, 1))

\* A - B for A >= B: the difference without borrows, minus the borrows
RECURSIVE SubBits(_, _)
SubBits(A, B) ==
    IF B = {} THEN A
    ELSE IF Cardinality(B) = 1 THEN SubBit(A, MaxBit(B))
    ELSE SubBits((A \cup B) \ (A \cap B), Shift(B \ A, 1))

LessBits(A, B) ==
    LET D == (A \ B) \cup (B \ A)
    IN  D # {} /\ MaxBit(D) \in B

RECURSIVE MulBitsBy(_, _)
MulBitsBy(A, B) ==
    IF B = {} THEN {}
    ELSE LET b == MaxBit(B)
         IN  AddBits(Shift(A, b), MulBitsBy(A, B \ {b}))

MulBits(A, B) ==
    IF Cardinality(A) >= Cardinality(B) THEN MulBitsBy(A, B) ELSE MulBitsBy(B, A)

\* quotient bits of R / B at positions p, p-1, ..., low, and below them one
\* sticky bit when the division leaves a remainder
RECURSIVE DivBitsFrom(_, _, _, _)
DivBitsFrom(R, B, p, low) ==
    IF p < low THEN (IF R = {} THEN {} ELSE {low - 2})
    ELSE LET T == Shift(B, p)
         IN  IF LessBits(R, T) THEN DivBitsFrom(R, B, p - 1, low)
             ELSE {p} \cup DivBitsFrom(SubBits(R, T), B, p - 1, low)

\* A / B to Precision + 1 or + 2 quotient bits and the sticky bit, which is all
\* that rounding reads (a division by a power of two is a shift, and exact)
DivBits(A, B) ==
    LET top == MaxBit(A) - MaxBit(B)
    IN  IF Cardinality(B) = 1 THEN Shift(A, 0 - MaxBit(B))
        ELSE DivBitsFrom(A, B, top, top - Precision - 1)

\* round to nearest, ties to even, at Precision significant bits
RoundBits(S) ==
    IF S = {} THEN {}
    ELSE LET h    == MaxBit(S)
             ulp  == h - (Precision - 1)
             keep == { i \in S : i >= ulp }
             up   == (ulp - 1) \in S
                     /\ ((\E i \in S : i < ulp - 1) \/ ulp \in S)
         IN  IF up THEN AddBits(keep, {ulp}) ELSE keep

RECURSIVE IntBits(_, _)
IntBits(n, i) ==
    IF n = 0 THEN {}
    ELSE (IF n % 2 = 1 THEN {i} ELSE {}) \cup IntBits(n \div 2, i + 1)

RECURSIVE BitsInt(_)
BitsInt(S) ==
    IF S = {} THEN 0
    ELSE LET b == MaxBit(S) IN 2^b + BitsInt(S \ {b})

-----------------------------------------------------------------------------
(* Doubles.                                                                *)

NaN  == [cls |-> "nan",  neg |-> FALSE, bits |-> {}]
PInf == [cls |-> "pinf", neg |-> FALSE, bits |-> {}]
NInf == [cls |-> "ninf", neg |-> TRUE,  bits |-> {}]
Fin(neg, bits) == [cls |-> "fin", neg |-> (neg /\ bits # {}), bits |-> bits]
Inf(neg) == IF neg THEN NInf ELSE PInf

Zero == Fin(FALSE, {})

\* static_cast<double>(n) of a std::size_t
ToDouble(n) == Fin(FALSE, RoundBits(IntBits(n, 0)))

\* std::isfinite
isfinite(x) == x.cls = "fin"

IsZero(x) == x.cls = "fin" /\ x.bits = {}

\* x < y on doubles (false when either is NaN)
flt(x, y) ==
    CASE x.cls = "nan" \/ y.cls = "nan" -> FALSE
      [] x.cls = "pinf" -> FALSE
      [] y.cls = "ninf" -> FALSE
      [] x.cls = "ninf" -> TRUE
      [] y.cls = "pinf" -> TRUE
      [] x.neg /\ ~y.neg -> TRUE
      [] ~x.neg /\ y.neg -> FALSE
      [] ~x.neg /\ ~y.neg -> LessBits(x.bits, y.bits)
      [] OTHER -> LessBits(y.bits, x.bits)

\* x <= y on doubles (false when either is NaN)
fle(x, y) == x.cls # "nan" /\ y.cls # "nan" /\ ~flt(y, x)

\* the exact sum and product of two finite doubles, before rounding
ExactAdd(x, y) ==
    IF x.neg = y.neg THEN Fin(x.neg, AddBits(x.bits, y.bits))
    ELSE IF LessBits(x.bits, y.bits) THEN Fin(y.neg, SubBits(y.bits, x.bits))
         ELSE Fin(x.neg, SubBits(x.bits, y.bits))

ExactMul(x, y) == Fin(x.neg # y.neg, MulBits(x.bits, y.bits))

Round(x) == Fin(x.neg, RoundBits(x.bits))

\* x + y
fadd(x, y) ==
    CASE x.cls = "nan" \/ y.cls = "nan" -> NaN
      [] x.cls # "fin" /\ y.cls # "fin" -> IF x.cls = y.cls THEN x ELSE NaN
      [] x.cls # "fin" -> x
      [] y.cls # "fin" -> y
      [] OTHER -> Round(ExactAdd(x, y))

\* x * y
fmul(x, y) ==
    CASE x.cls = "nan" \/ y.cls = "nan" -> NaN
      [] x.cls # "fin" \/ y.cls # "fin" ->
            IF IsZero(x) \/ IsZero(y) THEN NaN ELSE Inf(x.neg # y.neg)
      [] OTHER -> Round(ExactMul(x, y))

\* x / y
fdiv(x, y) ==
    CASE x.cls = "nan" \/ y.cls = "nan" -> NaN
      [] x.cls # "fin" /\ y.cls # "fin" -> NaN
      [] x.cls # "fin" -> Inf(x.neg # y.neg)
      [] y.cls # "fin" -> Zero
      [] IsZero(y) -> IF IsZero(x) THEN NaN ELSE Inf(x.neg # y.neg)
      [] IsZero(x) -> Zero
      [] OTHER -> Fin(x.neg # y.neg, RoundBits(DivBits(x.bits, y.bits)))

\* std::llround of a finite double: nearest integer, halfway cases away from zero
llround(x) ==
    LET m == BitsInt({ i \in x.bits : i >= 0 }) + (IF -1 \in x.bits THEN 1 ELSE 0)
    IN  IF x.neg THEN -m ELSE m

-----------------------------------------------------------------------------
(* fast_kernels.cpp                                                        *)

\* std::remove_if + erase: the elements that are finite, in their order
RECURSIVE remove_if_not_finite(_, _, _)
remove_if_not_finite(v, i, kept) ==
    IF i > Len(v) THEN kept
    ELSE remove_if_not_finite(v, i + 1,
                              IF isfinite(v[i]) THEN Append(kept, v[i]) ELSE kept)

\* a faulty variant: the predicate tests std::isnan, so the infinities stay
filter_nan_only(v) == SelectSeq(v, LAMBDA x : x.cls # "nan")

filter_finite(v) == remove_if_not_finite(v, 1, <<>>)

\* std::accumulate(first, last, init): init + v[i] + ... left to right
RECURSIVE accumulate(_, _, _)
accumulate(v, i, acc) ==
    IF i > Len(v) THEN acc ELSE accumulate(v, i + 1, fadd(acc, v[i]))

mean(v) ==
    IF v = <<>> THEN NaN
    ELSE fdiv(accumulate(v, 1, Zero), ToDouble(Len(v)))

\* std::sort with operator<: ascending
RECURSIVE InsertSorted(_, _)
InsertSorted(s, x) ==
    IF s = <<>> THEN <<x>>
    ELSE IF flt(x, Head(s)) THEN <<x>> \o s
         ELSE <<Head(s)>> \o InsertSorted(Tail(s), x)

RECURSIVE SortFrom(_, _, _)
SortFrom(v, i, sorted) ==
    IF i > Len(v) THEN sorted ELSE SortFrom(v, i + 1, InsertSorted(sorted, v[i]))

sort(v) == SortFrom(v, 1, <<>>)

\* a faulty variant: the flag is read the wrong way round
SortIfAssumed(v, assume_sorted) == IF assume_sorted THEN sort(v) ELSE v

\* if (!assume_sorted) std::sort(v.begin(), v.end());
SortUnlessAssumed(v, assume_sorted) == IF assume_sorted THEN v ELSE sort(v)

Half == Fin(FALSE, {-1})

\* a faulty variant: a negative ratio is replaced by its magnitude instead of by 0.0
NormalizeRatioAbs(trim_ratio) ==
    LET r0 == IF isfinite(trim_ratio) THEN trim_ratio ELSE Zero
        r1 == IF flt(r0, Zero) THEN [r0 EXCEPT !.neg = FALSE] ELSE r0
    IN  IF flt(Half, r1) THEN Half ELSE r1

\* the trim ratio after the three normalising statements
NormalizeRatio(trim_ratio) ==
    LET r0 == IF isfinite(trim_ratio) THEN trim_ratio ELSE Zero
        r1 == IF flt(r0, Zero) THEN Zero ELSE r0
    IN  IF flt(Half, r1) THEN Half ELSE r1

\* a faulty variant: the product is converted without std::llround, which truncates
TrimCountTruncating(r, n) ==
    BitsInt({ i \in fmul(r, ToDouble(n)).bits : i >= 0 })

\* k = static_cast<std::size_t>(std::llround(r * static_cast<double>(n)))
\* (r is in [0, 0.5], so the rounded value is never negative)
TrimCount(r, n) == llround(fmul(r, ToDouble(n)))

\* a faulty variant: the guard is strict
TrimExhaustsStrict(k, n) == 2 * k > n

\* if (2 * k >= n) return mean(v);
TrimExhausts(k, n) == 2 * k >= n

\* a faulty variant: the loop stops one element early (i + 1 < n - k)
RECURSIVE TrimLoopStopsEarly(_, _, _, _)
TrimLoopStopsEarly(v, i, k, acc) ==
    IF ~(i + 1 < Len(v) - k) THEN acc
    ELSE TrimLoopStopsEarly(v, i + 1, k,
                            [s |-> fadd(acc.s, v[i + 1]), cnt |-> acc.cnt + 1])

\* the loop for (i = k; i < n - k; ++i) { s += v[i]; ++cnt; } over the 0-indexed
\* v, which is the 1-indexed v[i + 1]
RECURSIVE TrimLoop(_, _, _, _)
TrimLoop(v, i, k, acc) ==
    IF ~(i < Len(v) - k) THEN acc
    ELSE TrimLoop(v, i + 1, k, [s |-> fadd(acc.s, v[i + 1]), cnt |-> acc.cnt + 1])

\* how a call ends: a returned double, with the return statement that produced
\* it ("empty", "fallback", "window", "dot"), or an exception
Returned(path, val) == [status |-> "ok", path |-> path, val |-> val]
Thrown(what)        == [status |-> what, path |-> "throw", val |-> NaN]

trimmed_mean(v0, trim_ratio, assume_sorted) ==
    LET f == filter_finite(v0)
    IN  IF f = <<>> THEN Returned("empty", NaN)
        ELSE LET v == SortUnlessAssumed(f, assume_sorted)
                 r == NormalizeRatio(trim_ratio)
                 n == Len(v)
                 k == TrimCount(r, n)
             IN  IF TrimExhausts(k, n) THEN Returned("fallback", mean(v))
                 ELSE LET l == TrimLoop(v, k, k, [s |-> Zero, cnt |-> 0])
                      IN  Returned("window",
                                   fdiv(l.s, ToDouble(IF l.cnt > 0 THEN l.cnt ELSE 1)))

\* a faulty variant: only negative weights are clipped, a NaN weight stays
ClipWeightNegativeOnly(x) == IF flt(x, Zero) THEN Zero ELSE x

\* if (!std::isfinite(x) || x < 0.0) x = 0.0;
ClipWeight(x) == IF ~isfinite(x) \/ flt(x, Zero) THEN Zero ELSE x

ClipWeights(w) == [i \in 1..Len(w) |-> ClipWeight(w[i])]

\* a faulty variant: only too few weights are rejected
LengthMismatchShort(w, v) == Len(w) < Len(v)

\* if (w.size() != v.size()) throw
LengthMismatch(w, v) == Len(w) # Len(v)

\* a faulty variant: the weights are divided by their count instead of their sum
NormalizeByCount(w, s) == [i \in 1..Len(w) |-> fdiv(w[i], ToDouble(Len(w)))]

\* for (auto& x : w) x /= s;
NormalizeWeights(w, s) == [i \in 1..Len(w) |-> fdiv(w[i], s)]

\* dot += v[i] * w[i], left to right from 0.0
RECURSIVE Dot(_, _, _, _)
Dot(v, w, i, acc) ==
    IF i > Len(v) THEN acc ELSE Dot(v, w, i + 1, fadd(acc, fmul(v[i], w[i])))

sorted_weighted_mean(v0, w0, assume_sorted) ==
    LET f == filter_finite(v0)
    IN  IF f = <<>> THEN Returned("empty", NaN)
        ELSE LET v == SortUnlessAssumed(f, assume_sorted)
                 w == ClipWeights(w0)
             IN  IF LengthMismatch(w, v) THEN Thrown("InvalidArgument")
                 ELSE LET s == accumulate(w, 1, Zero)
                      IN  IF fle(s, Zero) THEN Returned("fallback", mean(v))
                          ELSE Returned("dot", Dot(v, NormalizeWeights(w, s), 1, Zero))

-----------------------------------------------------------------------------
(* pybind_module.cpp                                                       *)

\* a py::array_t<double>: its number of dimensions and its elements, flat
Array(ndim, data) == [ndim |-> ndim, data |-> data]

as_vector(a) == IF a.ndim = 0 THEN <<>> ELSE a.data

\* 1.0, 3.0, 4.0, 2^54 (where doubles are 4 apart), 0.25 and the double nearest 1/6
One      == ToDouble(1)
Three    == ToDouble(3)
Four     == ToDouble(4)
Big      == Fin(FALSE, {Precision + 1})
Quarter  == Fin(FALSE, {-2})
Sixth    == fdiv(One, ToDouble(6))

\* -x
Negate(x) ==
    CASE x.cls = "nan"  -> NaN
      [] x.cls = "pinf" -> NInf
      [] x.cls = "ninf" -> PInf
      [] OTHER          -> Fin(~x.neg, x.bits)

\* the doubles the callers of the model pass: sample values, weights, and the
\* trim ratios 0, 1/6, 0.25, 0.125, 0.5, 0.75, -0.25 and the non-finite ones
SampleValues   == { One, Three, Big, Negate(Big), NaN, PInf, NInf }
WeightedValues == { One, Three, NaN, NInf }
WeightValues   == { Zero, One, Four, Negate(One), NaN }
RatioValues    == { Zero, Sixth, Quarter, Fin(FALSE, {-3}), Half,
                    Fin(FALSE, {-1, -2}), Negate(Quarter), NaN, PInf, NInf }

SeqsUpTo(S, n) == UNION { [1..m -> S] : m \in 0..n }

\* the arrays of at most n elements: one-dimensional ones and 0-dimensional scalars
Arrays(S, n) == { Array(1, d) : d \in SeqsUpTo(S, n) } \cup { Array(0, <<x>>) : x \in S }

VARIABLES fn, values, weights, trim_ratio, assume_sorted, outcome

vars == <<fn, values, weights, trim_ratio, assume_sorted, outcome>>

NoArray == Array(1, <<>>)

Init ==
    /\ fn = "none"
    /\ values = NoArray
    /\ weights = NoArray
    /\ trim_ratio = Zero
    /\ assume_sorted = FALSE
    /\ outcome = Returned("none", NaN)

\* m.def("trimmed_mean", ...): one call, from the arguments to the value or the
\* exception handed back
TrimmedMeanCall ==
    /\ fn = "none"
    /\ \E a \in Arrays(SampleValues, MaxLen), r \in RatioValues, srt \in BOOLEAN :
        /\ fn' = "trimmed_mean"
        /\ values' = a
        /\ weights' = NoArray
        /\ trim_ratio' = r
        /\ assume_sorted' = srt
        /\ outcome' = trimmed_mean(as_vector(a), r, srt)

\* m.def("sorted_weighted", ...)
SortedWeightedCall ==
    /\ fn = "none"
    /\ \E a \in Arrays(WeightedValues, MaxLen), b \in Arrays(WeightValues, MaxWeights),
         srt \in BOOLEAN :
        /\ fn' = "sorted_weighted"
        /\ values' = a
        /\ weights' = b
        /\ trim_ratio' = Zero
        /\ assume_sorted' = srt
        /\ outcome' = sorted_weighted_mean(as_vector(a), as_vector(b), srt)

\* the caller has taken the outcome; the kernels keep nothing between calls
Finish ==
    /\ fn # "none"
    /\ fn' = "none"
    /\ values' = NoArray
    /\ weights' = NoArray
    /\ trim_ratio' = Zero
    /\ assume_sorted' = FALSE
    /\ outcome' = Returned("none", NaN)

Next == TrimmedMeanCall \/ SortedWeightedCall \/ Finish

Spec == Init /\ [][Next]_vars

\* the calls of one export alone
NextTrimmed  == TrimmedMeanCall \/ Finish
NextWeighted == SortedWeightedCall \/ Finish

SpecTrimmed  == Init /\ [][NextTrimmed]_vars
SpecWeighted == Init /\ [][NextWeighted]_vars

-----------------------------------------------------------------------------
(* The vocabulary of the specification, defined apart from the code.       *)

V == as_vector(values)
W == as_vector(weights)

IsFiniteValue(x) == x.cls = "fin"
HasNonFinite(v) == \E i \in 1..Len(v) : ~IsFiniteValue(v[i])

\* FiniteFilter: the finite values, in their order
FiniteFilter(v) == SelectSeq(v, IsFiniteValue)

\* sort_ascending: element i goes to the position its rank gives it
Rank(v, i) ==
    Cardinality({ m \in 1..Len(v) : flt(v[m], v[i]) \/ (v[m] = v[i] /\ m < i) }) + 1

Ascending(v) ==
    [j \in 1..Len(v) |-> v[CHOOSE i \in 1..Len(v) : Rank(v, i) = j]]

F == FiniteFilter(V)

\* the sample sequence the algorithm works on after filtering and sorting
Processed == IF assume_sorted THEN F ELSE Ascending(F)

\* the sum of a sequence of doubles, added left to right
RECURSIVE SumOf(_)
SumOf(s) ==
    IF s = <<>> THEN Zero
    ELSE fadd(SumOf(SubSeq(s, 1, Len(s) - 1)), s[Len(s)])

\* the sum of a sequence of finite doubles as a real number, without rounding
RECURSIVE ExactSumOf(_)
ExactSumOf(s) ==
    IF s = <<>> THEN Zero
    ELSE ExactAdd(ExactSumOf(SubSeq(s, 1, Len(s) - 1)), s[Len(s)])

\* Mean: NaN for no data, else sum / count
Mean(s) == IF s = <<>> THEN NaN ELSE fdiv(SumOf(s), ToDouble(Len(s)))

MinOf(s) == s[CHOOSE i \in 1..Len(s) : \A j \in 1..Len(s) : fle(s[i], s[j])]
MaxOf(s) == s[CHOOSE i \in 1..Len(s) : \A j \in 1..Len(s) : fle(s[j], s[i])]
Abs(x) == [x EXCEPT !.neg = FALSE]
MaxAbsOf(s) == MaxOf([i \in 1..Len(s) |-> Abs(s[i])])

SameResult(a, b) == a.status = b.status /\ a.val = b.val

-----------------------------------------------------------------------------
\* C1: for trimmed_mean and for sorted_weighted_mean, a call on a sample sequence
\* that holds a non-finite value has the outcome of the same call (same ratio or
\* weights, same assume_sorted) on the sequence with the non-finite values removed.
InvC1 ==
    (fn # "none" /\ HasNonFinite(V)) =>
        outcome = IF fn = "trimmed_mean"
                  THEN trimmed_mean(FiniteFilter(V), trim_ratio, assume_sorted)
                  ELSE sorted_weighted_mean(FiniteFilter(V), W, assume_sorted)

WitC1 ==
    /\ fn = "sorted_weighted"
    /\ HasNonFinite(V)
    /\ Len(F) >= 2
    /\ outcome.path = "dot"

\* C2: sorted_weighted with len(weights) == len(values) returns a number and
\* does not fail with InvalidArgument, also when values holds NaN or infinities.
StatedC2 ==
    (fn = "sorted_weighted" /\ values.ndim = 1 /\ weights.ndim = 1
        /\ Len(V) = Len(W)) => outcome.status = "ok"

StatedC4 ==
    (fn = "trimmed_mean" /\ trim_ratio = Zero /\ ~assume_sorted) =>
        outcome.val = Mean(F)

\* C4 as amended: trimmed_mean(v, 0.0, false) equals the Mean of FiniteFilter(v)
\* sorted ascending; the trim count is 0, no element is discarded, and an empty
\* filtered sequence gives NaN on both sides.
InvC4 ==
    (fn = "trimmed_mean" /\ trim_ratio = Zero /\ ~assume_sorted) =>
        /\ outcome.status = "ok"
        /\ outcome.val = Mean(Ascending(F))
        /\ F # <<>> => outcome.path = "window"
        /\ F = <<>> => outcome.val = NaN

WitC4 ==
    /\ fn = "trimmed_mean" /\ trim_ratio = Zero /\ ~assume_sorted
    /\ Len(F) >= 3
    /\ F # Ascending(F)
    /\ outcome.path = "window"

\* C5: a ratio above 0.5 gives the result of ratio 0.5 and a ratio below 0 the
\* result of ratio 0.0 (assume_sorted false); no ratio makes the call fail.
InvC5 ==
    fn = "trimmed_mean" =>
        /\ outcome.status = "ok"
        /\ (~assume_sorted /\ flt(Half, trim_ratio)) =>
              SameResult(outcome, trimmed_mean(V, Half, FALSE))
        /\ (~assume_sorted /\ flt(trim_ratio, Zero)) =>
              SameResult(outcome, trimmed_mean(V, Zero, FALSE))

WitC5 ==
    /\ fn = "trimmed_mean" /\ ~assume_sorted
    /\ isfinite(trim_ratio) /\ flt(trim_ratio, Zero)
    /\ Len(F) >= 3
    /\ MinOf(F) # MaxOf(F)

\* C6: with matching lengths and a clipped weight sum <= 0 the result is the
\* plain Mean of the filtered (and, unless assume_sorted, sorted) sample
\* sequence: no error, no NaN.
SpecClip(w) ==
    [i \in 1..Len(w) |-> IF IsFiniteValue(w[i]) /\ ~w[i].neg THEN w[i] ELSE Zero]

InvC6 ==
    (fn = "sorted_weighted" /\ F # <<>> /\ Len(W) = Len(F)
        /\ fle(SumOf(SpecClip(W)), Zero)) =>
        /\ outcome.status = "ok"
        /\ outcome.val = Mean(Processed)
        /\ outcome.val # NaN

WitC6 ==
    /\ fn = "sorted_weighted" /\ Len(F) >= 2 /\ Len(W) = Len(F)
    /\ \E i \in 1..Len(W) : ~IsFiniteValue(W[i])
    /\ \E i \in 1..Len(W) : IsFiniteValue(W[i]) /\ W[i].neg
    /\ outcome.path = "fallback"

\* C7: for a finite sample sequence v and weights w of the same length,
\* sorted_weighted_mean(v, w, false) gives the result of
\* sorted_weighted_mean(sort_ascending(v), w, true).
InvC7 ==
    (fn = "sorted_weighted" /\ ~assume_sorted /\ ~HasNonFinite(V)
        /\ Len(V) = Len(W)) =>
        outcome = sorted_weighted_mean(Ascending(V), W, TRUE)

WitC7 ==
    /\ fn = "sorted_weighted" /\ ~assume_sorted /\ ~HasNonFinite(V)
    /\ Len(V) = Len(W)
    /\ V # Ascending(V)
    /\ outcome.path = "dot"
    /\ outcome # sorted_weighted_mean(V, W, TRUE)

\* the weights the dot product uses: clipped, then divided by their sum
UsedWeights ==
    LET c == ClipWeights(W) IN NormalizeWeights(c, accumulate(c, 1, Zero))

\* n * 2^e
Scaled(n, e) == Fin(FALSE, Shift(IntBits(n, 0), e))

\* C8 as stated: off the NaN, InvalidArgument and zero-sum paths the weights
\* used are nonnegative and sum to 1, and the result lies between the minimum
\* and the maximum of the filtered sample values.
StatedC8 ==
    (fn = "sorted_weighted" /\ outcome.path = "dot") =>
        /\ \A i \in 1..Len(UsedWeights) : fle(Zero, UsedWeights[i])
        /\ ExactSumOf(UsedWeights) = One
        /\ fle(MinOf(F), outcome.val) /\ fle(outcome.val, MaxOf(F))

\* C8 as amended: on that path the weights used are nonnegative, at most 1, and
\* sum to 1 up to rounding (their exact sum is within n * 2^-52 of 1); the result
\* is a convex combination up to rounding: it lies between the minimum and the
\* maximum of the filtered sample values widened by n * 2^-51 times the largest
\* magnitude among them.
InvC8 ==
    (fn = "sorted_weighted" /\ outcome.path = "dot") =>
        LET n   == Len(F)
            tot == ExactSumOf(UsedWeights)
            eps == Scaled(n, -(Precision - 1))
            e   == ExactMul(Scaled(n, -(Precision - 2)), MaxAbsOf(F))
        IN  /\ \A i \in 1..n : fle(Zero, UsedWeights[i]) /\ fle(UsedWeights[i], One)
            /\ fle(ExactAdd(One, Negate(eps)), tot) /\ fle(tot, ExactAdd(One, eps))
            /\ fle(ExactAdd(MinOf(F), Negate(e)), outcome.val)
            /\ fle(outcome.val, ExactAdd(MaxOf(F), e))

WitC8 ==
    /\ fn = "sorted_weighted" /\ outcome.path = "dot"
    /\ ExactSumOf(UsedWeights) # One
    /\ flt(MaxOf(F), outcome.val)

\* the nearest integer to a finite double p >= 0, halfway cases away from zero
NearestAway(p, n) ==
    LET twice == Fin(FALSE, Shift(p.bits, 1))
    IN  CHOOSE k \in 0..n :
            /\ k = 0 \/ fle(ToDouble(2 * k - 1), twice)
            /\ flt(twice, ToDouble(2 * k + 1))

SpecRatio ==
    LET r == IF IsFiniteValue(trim_ratio) THEN trim_ratio ELSE Zero
    IN  IF flt(r, Zero) THEN Zero ELSE IF flt(Half, r) THEN Half ELSE r

SpecK == NearestAway(fmul(SpecRatio, ToDouble(Len(F))), Len(F))

\* C9: for a non-empty filtered sequence of length n and the normalized ratio r,
\* k is r*n (the double product) rounded to the nearest integer, ties away from
\* zero; if 2k >= n the result is the Mean of all n elements, else the sum of
\* the elements at positions [k, n-k) divided by n - 2k >= 1; never NaN, never
\* an error.
InvC9 ==
    (fn = "trimmed_mean" /\ F # <<>>) =>
        LET n == Len(F)
            k == SpecK
        IN  /\ outcome.status = "ok"
            /\ outcome.val # NaN
            /\ IF 2 * k >= n
               THEN outcome.val = Mean(Processed)
               ELSE /\ n - 2 * k >= 1
                    /\ outcome.val = fdiv(SumOf(SubSeq(Processed, k + 1, n - k)),
                                          ToDouble(n - 2 * k))

WitC9 ==
    /\ fn = "trimmed_mean" /\ Len(F) = 3
    /\ trim_ratio = Sixth
    /\ SpecK = 1
    /\ outcome.val # Mean(Processed)

\* C10: at ratio 0.5, or any larger finite ratio, trimmed_mean takes the
\* fallback path for every filtered length n >= 1, and returns the mean of all
\* the finite values.
InvC10 ==
    (fn = "trimmed_mean" /\ F # <<>> /\ isfinite(trim_ratio)
        /\ fle(Half, trim_ratio)) =>
        /\ outcome.path = "fallback"
        /\ outcome.val = Mean(Processed)

WitC10 ==
    /\ fn = "trimmed_mean" /\ Len(F) = 3 /\ trim_ratio = Half
    /\ outcome.path = "fallback"
    /\ outcome.val # Processed[2]

=============================================================================
